---- MODULE Spec2Model ----
(***************************************************************************)
(* Section Anchor & Merge Engine of obsidian_automation.                   *)
(*                                                                         *)
(* Text is a sequence of one-character strings; offsets are Python's       *)
(* 0-based offsets, Slice(s, i, j) is Python's s[i:j].                     *)
(*                                                                         *)
(* The specifications share the variables; each one runs one part of the   *)
(* repository and leaves the other parts' variables at their initial       *)
(* values:                                                                 *)
(*   SpecMerge   the replace-or-append loop body of daily_pipeline         *)
(*   SpecAnchor  extract_section / clean_section_text                      *)
(*   SpecWeek    get_week_range and weekly_review, over many identifiers   *)
(*   SpecCorpus  weekly_review, over many daily notes                      *)
(*   SpecFetch   fetch_raindrop_body's per-file loop, run once or twice    *)
(*   SpecBatch   the batch loops of fetch_raindrop_body,                   *)
(*               classify_kindle_notes and summarize_note                  *)
(*   SpecFence   the cleaning of markdown fences off an AI response        *)
(*   SpecDaily   daily_pipeline from OCR to the written note               *)
(***************************************************************************)
EXTENDS Integers, Sequences, FiniteSets, TLC

VARIABLES
    content,        \* daily_pipeline: the note text being merged (local `content`)
    prev_content,   \* `content` before the last loop iteration of the merge
    header,         \* header of the last loop iteration, <<>> before the first
    body,           \* body of the last loop iteration
    n_merged,       \* loop iterations run so far
    text,           \* extract_section: the OCR text (`full_text`)
    label,          \* extract_section: the label last asked for, "" before
    section,        \* extract_section's return value for (text, label)
    cleaned,        \* clean_section_text(section)
    iso_week_str,   \* weekly_review: its argument
    wr_pc,          \* weekly_review: position in the function
    week_range,     \* weekly_review: (start_date, end_date) as ordinals, or None
    ai_calls,       \* weekly_review: calls made to the generative service
    review_written, \* weekly_review: whether the review file was written
    daily_notes,    \* weekly_review: per weekday 1..7 of the week, the daily note
                    \* in 50_daily as <<exists, text>>
    current,        \* weekly_review: the loop's `current` date, as an ordinal
    visited,        \* the dates the loop has passed to extract_daily_content
    weekly_text,    \* weekly_review: `weekly_text`
    files,          \* fetch_raindrop_body: the texts of the *.md files on disk
    orig_files,     \* the files as they were when the run began
    filter_date,    \* whether a start_date argument was given (start_date is not None)
    file_idx,       \* index in `files` of the loop's next file
    fetched,        \* indexes of the files an Article was created for
    written,        \* indexes of the files the loop wrote
    extracted,      \* per file, `extracted_text` of the last write (<<>> before)
    runs,           \* invocations of fetch_raindrop_body begun so far
    prog,           \* the batch program run: "fetch", "classify" or "summarize"
    n_docs,         \* classify / summarize: number of *.md files globbed
    doc_idx,        \* classify / summarize: index of the loop's next file
    attempted,      \* indexes of the files the loop has taken up
    processed_sources, \* summarize: indexes of the files already summarized before
    moved,          \* classify: indexes of the files moved to a theme folder
    summarized,     \* summarize: indexes of the files notes were generated for
    batch_pc,       \* "loop", or "aborted" once an exception has left the program
    response_text,  \* daily_pipeline / weekly_review: `response.text`
    ai_response,    \* `ai_response` after the fences are cleaned, as <<done, text>>
    dp_pc,          \* daily_pipeline: position in the function
    full_text,      \* daily_pipeline: `full_text` of the OCR
    ocr_texts,      \* daily_pipeline: scan_text, emotion_text, gratitude_text, step_text
    ai_sections,    \* daily_pipeline: `ai_sections`, as <<header, body>> pairs in
                    \* the order of the dict
    daily_note,     \* the daily note on disk, as <<exists, text>>
    orig_note       \* the daily note as it was when the run began

mergeVars == <<content, prev_content, header, body, n_merged>>
anchorVars == <<text, label, section, cleaned>>
weekVars == <<iso_week_str, wr_pc, week_range, ai_calls, review_written,
             daily_notes, current, visited, weekly_text>>
fetchVars == <<files, orig_files, filter_date, file_idx, fetched, written, extracted, runs>>
batchVars == <<prog, n_docs, doc_idx, attempted, processed_sources, moved, summarized, batch_pc>>
dailyVars == <<response_text, ai_response, dp_pc, full_text, ocr_texts, ai_sections,
              daily_note, orig_note>>
vars == <<mergeVars, anchorVars, weekVars, fetchVars, batchVars, dailyVars>>

----------------------------------------------------------------------------
(* Strings *)

NL == "\n"
SP == " "

Slice(s, i, j) == SubSeq(s, i + 1, j)

StartsWithAt(s, p, t) ==
    /\ p + Len(t) <= Len(s)
    /\ SubSeq(s, p + 1, p + Len(t)) = t

\* str.startswith
startswith(s, t) == StartsWithAt(s, 0, t)

Least(S) == CHOOSE p \in S : \A q \in S : p <= q

\* str.find: offset of the first occurrence of t in s, -1 when there is none
Find(s, t) ==
    LET hits == {p \in 0..(Len(s) - Len(t)) : StartsWithAt(s, p, t)}
    IN  IF hits = {} THEN -1 ELSE CHOOSE p \in hits : \A q \in hits : p <= q

RECURSIVE JoinLines(_)
JoinLines(ls) ==
    IF Len(ls) = 0 THEN <<>>
    ELSE IF Len(ls) = 1 THEN ls[1]
    ELSE ls[1] \o <<NL>> \o JoinLines(Tail(ls))

IsSpace(c) == c \in {SP, NL}

\* str.strip()
RECURSIVE LStrip(_)
LStrip(s) == IF Len(s) > 0 /\ IsSpace(s[1]) THEN LStrip(Tail(s)) ELSE s
RECURSIVE RStrip(_)
RStrip(s) ==
    IF Len(s) > 0 /\ IsSpace(s[Len(s)]) THEN RStrip(SubSeq(s, 1, Len(s) - 1)) ELSE s
Strip(s) == RStrip(LStrip(s))

----------------------------------------------------------------------------
(* daily_pipeline: replace or append one section (lines 239-246, 290-297) *)

HeaderMark == <<NL, "#", "#", SP>>      \* the lookahead's "\n## "
HA == <<"#", "#", SP, "A">>
HB == <<"#", "#", SP, "B">>
Headers == {HA, HB}
Bodies == {<<>>, <<"x">>, HB}

\* (?=\n## |$): "$" without re.MULTILINE matches at the end of the string and
\* just before a newline that ends the string
lookahead(c, p) ==
    \/ StartsWithAt(c, p, HeaderMark)
    \/ p = Len(c)
    \/ (p = Len(c) - 1 /\ c[Len(c)] = NL)

\* the match a greedy ".*" in place of ".*?" would give
pattern_search_greedy(c, h) ==
    LET s == Find(c, h)
    IN  IF s = -1 THEN <<-1, -1>> ELSE <<s, Len(c)>>

\* pattern.search(content): (start, end) of the leftmost match of
\* (header).*?(?=\n## |$) under re.DOTALL, <<-1, -1>> when header does not occur
pattern_search(c, h) ==
    LET s == Find(c, h)
    IN  IF s = -1 THEN <<-1, -1>>
        ELSE LET ends == {p \in (s + Len(h))..Len(c) : lookahead(c, p)}
             IN  <<s, CHOOSE p \in ends : \A q \in ends : p <= q>>

replacement(h, b) == h \o <<NL>> \o b \o <<NL>>

\* one iteration of "for header, body in ...items()": the new `content`
upsert(c, h, b) ==
    LET m == pattern_search(c, h)
    IN  IF m[1] # -1
        THEN Slice(c, 0, m[1]) \o replacement(h, b) \o Slice(c, m[2], Len(c))
        ELSE c \o <<NL, NL>> \o replacement(h, b)

\* The notes the loop can start from: what is on disk, or the default title
MaxLines == 3
MaxMerges == 2
LineKinds == {HA, HB, <<"x">>, <<"#">> \o HA}
LineSeqs == UNION {[1..n -> LineKinds] : n \in 0..MaxLines}
ExampleNote ==
    <<"#", SP, "N", NL>> \o HA \o <<NL, "o", NL>> \o HB \o <<NL, "k", NL>>
DefaultNote == <<"#", SP, "D", NL>>
Notes ==
    {JoinLines(ls) \o t : ls \in LineSeqs, t \in {<<>>, <<NL>>}}
        \cup {ExampleNote, DefaultNote}

MergeInit ==
    /\ content \in Notes
    /\ prev_content = content
    /\ header = <<>>
    /\ body = <<>>
    /\ n_merged = 0

MergeIdle ==
    /\ content = <<>>
    /\ prev_content = <<>>
    /\ header = <<>>
    /\ body = <<>>
    /\ n_merged = 0

MergeStep(h, b) ==
    /\ n_merged < MaxMerges
    /\ prev_content' = content
    /\ header' = h
    /\ body' = b
    /\ content' = upsert(content, h, b)
    /\ n_merged' = n_merged + 1
    /\ UNCHANGED <<anchorVars, weekVars, fetchVars, batchVars, dailyVars>>

MergeNext == \E h \in Headers, b \in Bodies : MergeStep(h, b)

----------------------------------------------------------------------------
(* The specification's reading of a section, used by the claims below:    *)
(* a header is present when it occurs at the start of a line; its body    *)
(* runs from after the header line's newline to the next line starting    *)
(* with "## ", or to the end of the document.                             *)

AtLineStart(c, p) == p = 0 \/ c[p] = NL

LineStartOffsets(c, h) ==
    {p \in 0..(Len(c) - Len(h)) : StartsWithAt(c, p, h) /\ AtLineStart(c, p)}

PresentAtLineStart(c, h) == LineStartOffsets(c, h) # {}

HeaderLocator(c, h) ==
    LET p == Least(LineStartOffsets(c, h))
        nls == {q \in p..(Len(c) - 1) : c[q + 1] = NL}
        start == IF nls = {} THEN Len(c) ELSE Least(nls) + 1
        nexts == {q \in start..(Len(c) - 3) :
                    StartsWithAt(c, q, <<"#", "#", SP>>) /\ AtLineStart(c, q)}
        end == IF nexts = {} THEN Len(c) ELSE Least(nexts)
    IN  <<start, end>>

\* the header line is followed by its newline, so the section has a body span
HeaderLineEnded(c, h) ==
    LET start == HeaderLocator(c, h)[1]
    IN  start > 0 /\ c[start] = NL

IsPrefix(a, c) == Len(a) <= Len(c) /\ SubSeq(c, 1, Len(a)) = a
IsSuffix(a, c) == Len(a) <= Len(c) /\ SubSeq(c, Len(c) - Len(a) + 1, Len(c)) = a

Merged == header # <<>>

\* C1: upserting the same (header, body) a second time leaves the document
\* as the first upsert made it (idempotence), whether the header was present
\* or was appended by the first upsert.
C1_Idempotent == Merged => upsert(content, header, body) = content

\* C2: an upsert leaves the document outside the targeted section unchanged:
\* with the header present, the text up to the section body and the text from
\* the next header line (or end of document) on are kept; with the header
\* absent, the old document is a prefix of the new one.
C2_Preserved ==
    Merged =>
        IF PresentAtLineStart(prev_content, header)
        THEN LET loc == HeaderLocator(prev_content, header)
                 before == Slice(prev_content, 0, loc[1])
                 after == Slice(prev_content, loc[2], Len(prev_content))
             IN  /\ IsPrefix(before, content)
                 /\ IsSuffix(after, content)
                 /\ Len(before) + Len(after) <= Len(content)
        ELSE IsPrefix(prev_content, content)

FirstAtLineStart(c, h) == Find(c, h) # -1 /\ AtLineStart(c, Find(c, h))

Commutes(d, h1, b1, h2, b2) ==
    /\ FirstAtLineStart(d, h1)
    /\ FirstAtLineStart(d, h2)
    /\ Find(b1, h2) = -1
    /\ Find(b2, h1) = -1

C4_ReplacedInPlace ==
    (/\ Merged
     /\ PresentAtLineStart(prev_content, header)
     /\ HeaderLineEnded(prev_content, header)) =>
        LET loc == HeaderLocator(prev_content, header)
        IN  content =
                Slice(prev_content, 0, loc[1]) \o body \o <<NL>>
                    \o Slice(prev_content, loc[2], Len(prev_content))

\* C5: a header that occurs only inside a line, never at the start of one,
\* counts as absent: nothing is replaced and the section (blank line, header,
\* newline, body, newline) is appended at the end.
C5_PresentOnlyAtLineStart ==
    (Merged /\ ~PresentAtLineStart(prev_content, header)) =>
        content = prev_content \o <<NL, NL>> \o header \o <<NL>> \o body \o <<NL>>

----------------------------------------------------------------------------
(* daily_pipeline: extract_section and clean_section_text (lines 85-134,  *)
(* called at lines 170-178 on the text the OCR loop assembled)             *)

\* str.split(sep, maxsplit); maxsplit = -1 splits at every occurrence
RECURSIVE SplitStr(_, _, _)
SplitStr(s, sep, maxsplit) ==
    LET p == Find(s, sep)
    IN  IF p = -1 \/ maxsplit = 0 THEN <<s>>
        ELSE <<Slice(s, 0, p)>>
                \o SplitStr(Slice(s, p + Len(sep), Len(s)), sep, maxsplit - 1)

Labels == <<"scan", "emotion", "gratitude", "step">>
pattern_map ==
    [l \in {"scan", "emotion", "gratitude", "step"} |->
        CASE l = "scan" -> "1"
          [] l = "emotion" -> "2"
          [] l = "gratitude" -> "3"
          [] l = "step" -> "4"]

\* the pattern #\s*<digit> matches at offset p
PatMatchesAt(t, p, digit) ==
    /\ p < Len(t)
    /\ t[p + 1] = "#"
    /\ \E q \in (p + 1)..(Len(t) - 1) :
        /\ t[q + 1] = digit
        /\ \A r \in (p + 1)..(q - 1) : IsSpace(t[r + 1])

\* re.search(pat, text): match.start() of the leftmost match, -1 for no match
re_search(t, digit) ==
    LET hits == {p \in 0..(Len(t) - 1) : PatMatchesAt(t, p, digit)}
    IN  IF hits = {} THEN -1 ELSE Least(hits)

indices(t) == [l \in DOMAIN pattern_map |-> re_search(t, pattern_map[l])]

\* sorted(pairs): ascending by offset (offsets of different labels differ)
RECURSIVE SortPairs(_)
SortPairs(S) ==
    IF S = {} THEN <<>>
    ELSE LET m == CHOOSE x \in S : \A y \in S : x[1] <= y[1]
         IN  <<m>> \o SortPairs(S \ {m})

\* the dict's insertion order, as items() yields it
RECURSIVE PairsInLabelOrder(_, _)
PairsInLabelOrder(t, i) ==
    IF i > Len(Labels) THEN <<>>
    ELSE (IF indices(t)[Labels[i]] # -1
            THEN <<(<<indices(t)[Labels[i]], Labels[i]>>)>> ELSE <<>>)
            \o PairsInLabelOrder(t, i + 1)

sorted_indices_unsorted(t) == PairsInLabelOrder(t, 1)

sorted_indices(t) ==
    SortPairs({<<indices(t)[l], l>> : l \in {k \in DOMAIN pattern_map : indices(t)[k] # -1}})

section_bounds_to_end(t, lab) ==
    LET si == sorted_indices(t)
        at == {i \in 1..Len(si) : si[i][2] = lab}
    IN  IF at = {} THEN <<-1, -1>> ELSE <<si[Least(at)][1], Len(t)>>

\* the loop over sorted_indices: (target_idx, next_idx) of the label, or
\* <<-1, -1>> when the loop ends without finding it
section_bounds(t, lab) ==
    LET si == sorted_indices(t)
        at == {i \in 1..Len(si) : si[i][2] = lab}
    IN  IF at = {} THEN <<-1, -1>>
        ELSE LET i == Least(at)
             IN  <<si[i][1], IF i + 1 <= Len(si) THEN si[i + 1][1] ELSE Len(t)>>

extract_section(t, lab) ==
    LET b == section_bounds(t, lab)
    IN  IF b[1] = -1 THEN <<>> ELSE Strip(Slice(t, b[1], b[2]))

\* clean_section_text that keeps the label line
clean_section_text_keep_label(t) == Strip(t)

clean_section_text(t) ==
    LET lines == SplitStr(t, <<NL>>, -1)
    IN  IF Len(lines) > 0 THEN Strip(JoinLines(Tail(lines))) ELSE t

\* The OCR loop (lines 154-159): full_text is every page's text followed by a
\* newline, the empty string when there is no page
MaxToks == 4
Tokens == {<<"#", "1">>, <<"#", SP, "2">>, <<"#", "3">>, <<"#", "4">>, <<"a">>, <<NL>>, <<SP>>}
RECURSIVE Concat(_)
Concat(ts) == IF Len(ts) = 0 THEN <<>> ELSE ts[1] \o Concat(Tail(ts))
PageTexts == {Concat(ts) : ts \in UNION {[1..n -> Tokens] : n \in 0..MaxToks}}
FullTexts == {<<>>} \cup {pg \o <<NL>> : pg \in PageTexts}

AnchorInit ==
    /\ text \in FullTexts
    /\ label = ""
    /\ section = <<>>
    /\ cleaned = <<>>

ExtractStep(lab) ==
    /\ label' = lab
    /\ section' = extract_section(text, lab)
    /\ cleaned' = clean_section_text(section')
    /\ UNCHANGED <<text, mergeVars, weekVars, fetchVars, batchVars, dailyVars>>

AnchorNext == \E i \in 1..Len(Labels) : ExtractStep(Labels[i])

----------------------------------------------------------------------------
(* Claims about extract_section *)

Extracted == label # ""
LabelSet == DOMAIN pattern_map
Present(t) == {l \in LabelSet : indices(t)[l] # -1}

\* the markers #1, #2, #3 occur in that order, and #4, if it occurs, after them
MarkersInOrder(t) ==
    /\ {"scan", "emotion", "gratitude"} \subseteq Present(t)
    /\ indices(t)["scan"] < indices(t)["emotion"]
    /\ indices(t)["emotion"] < indices(t)["gratitude"]
    /\ "step" \in Present(t) => indices(t)["gratitude"] < indices(t)["step"]

\* the present labels, which MarkersInOrder puts in offset order
RECURSIVE PresentInOrder(_, _)
PresentInOrder(t, i) ==
    IF i > Len(Labels) THEN <<>>
    ELSE (IF Labels[i] \in Present(t) THEN <<Labels[i]>> ELSE <<>>)
            \o PresentInOrder(t, i + 1)

Span(t, l) == Slice(t, section_bounds(t, l)[1], section_bounds(t, l)[2])

\* C6 as claimed: with the markers in order, the segments extract_section
\* returns, concatenated in offset order, are the whole input text.
C6_SegmentsCoverInput ==
    (Extracted /\ MarkersInOrder(text)) =>
        LET ls == PresentInOrder(text, 1)
        IN  Concat([i \in 1..Len(ls) |-> extract_section(text, ls[i])]) = text

\* C6 as amended: with the markers in order, the spans between consecutive
\* marker offsets are contiguous, do not overlap and cover the text from the
\* first marker to the end; each returned segment is its span with the
\* whitespace at both ends stripped.
C6_SpansCoverFromFirstMarker ==
    (Extracted /\ MarkersInOrder(text)) =>
        LET ls == PresentInOrder(text, 1)
        IN  /\ section_bounds(text, ls[1])[1] = indices(text)["scan"]
            /\ \A i \in 1..Len(ls) :
                /\ section_bounds(text, ls[i])[1] < section_bounds(text, ls[i])[2]
                /\ section_bounds(text, ls[i])[2] =
                        IF i < Len(ls) THEN section_bounds(text, ls[i + 1])[1]
                        ELSE Len(text)
            /\ Concat([i \in 1..Len(ls) |-> Span(text, ls[i])]) =
                    Slice(text, indices(text)["scan"], Len(text))
            /\ section = Strip(Span(text, label))

\* #3's segment was extracted and lost the whitespace that ends its span
C6_Witness ==
    /\ Extracted
    /\ MarkersInOrder(text)
    /\ label = "gratitude"
    /\ section # <<>>
    /\ section # Span(text, label)

\* first-match offset of the nearest other label after l, or the text's end
NextOffset(t, l) ==
    LET later == {indices(t)[k] : k \in {j \in Present(t) : indices(t)[j] > indices(t)[l]}}
    IN  IF later = {} THEN Len(t) ELSE Least(later)

\* C7 as claimed: the returned segment starts at the label's first match and
\* ends at the nearest first-match offset of another label after it (or at
\* the end of the text), whatever the order of the labels.
C7_BoundedByOffsets ==
    Extracted =>
        section = IF label \in Present(text)
                  THEN Slice(text, indices(text)[label], NextOffset(text, label))
                  ELSE <<>>

\* C7 as amended: the returned segment is the text from the label's first
\* match up to the nearest first-match offset of another label after it (or
\* to the end of the text), with the whitespace at both ends stripped,
\* whatever the order of the labels in the text.
C7_StrippedSpanByOffsets ==
    Extracted =>
        section = IF label \in Present(text)
                  THEN Strip(Slice(text, indices(text)[label], NextOffset(text, label)))
                  ELSE <<>>

\* the markers stand in the order #3, #1, # 2 and #3's segment was extracted
C7_Witness ==
    /\ label = "gratitude"
    /\ {"scan", "emotion", "gratitude"} \subseteq Present(text)
    /\ indices(text)["gratitude"] < indices(text)["scan"]
    /\ indices(text)["scan"] < indices(text)["emotion"]
    /\ section = <<"#", "3">>

\* the segment after its first line: nothing when it has no newline
AfterFirstLine(s) ==
    IF Find(s, <<NL>>) = -1 THEN <<>> ELSE Slice(s, Find(s, <<NL>>) + 1, Len(s))

IsBlankLine(l) == \A i \in 1..Len(l) : l[i] = SP
RECURSIVE DropBlankHead(_)
DropBlankHead(ls) ==
    IF Len(ls) > 0 /\ IsBlankLine(ls[1]) THEN DropBlankHead(Tail(ls)) ELSE ls
RECURSIVE DropBlankTail(_)
DropBlankTail(ls) ==
    IF Len(ls) > 0 /\ IsBlankLine(ls[Len(ls)])
    THEN DropBlankTail(SubSeq(ls, 1, Len(ls) - 1)) ELSE ls
\* s without the blank lines at its beginning and at its end
TrimBlankLines(s) == JoinLines(DropBlankTail(DropBlankHead(SplitStr(s, <<NL>>, -1))))

\* C14 as stated: for every text, a label whose pattern does not match gets
\* the empty segment, and the cleaned body is the segment without its first
\* line and without the blank lines around the rest, empty for an empty
\* segment and for a segment with no newline.
C14_BlankLinesTrimmed ==
    Extracted =>
        /\ label \notin Present(text) => section = <<>>
        /\ (section = <<>> \/ Find(section, <<NL>>) = -1) => cleaned = <<>>
        /\ cleaned = TrimBlankLines(AfterFirstLine(section))

\* C14: for every text (the empty one and those without a marker too), a
\* label whose pattern does not match gets the empty segment, so with no
\* marker every segment is empty; the cleaned body is the segment without its
\* first line, stripped of the whitespace at both ends, and is empty for an
\* empty segment and for a segment with no newline.
C14_DegradesToEmpty ==
    Extracted =>
        /\ label \notin Present(text) => section = <<>>
        /\ Present(text) = {} => \A l \in LabelSet : extract_section(text, l) = <<>>
        /\ (section = <<>> \/ Find(section, <<NL>>) = -1) => cleaned = <<>>
        /\ cleaned = Strip(AfterFirstLine(section))

\* a text that is not empty and has no marker was segmented
C14_Witness ==
    /\ Extracted
    /\ Find(text, <<"a">>) # -1
    /\ Present(text) = {}
    /\ section = <<>>
    /\ cleaned = <<>>

----------------------------------------------------------------------------
(* weekly_review: get_week_range (lines 84-97) and weekly_review (144-212) *)
(* Dates are proleptic Gregorian ordinals, 0001-01-01 being day 1, as      *)
(* datetime.date.toordinal gives them.                                     *)

IsDigit(c) == c \in {"0", "1", "2", "3", "4", "5", "6", "7", "8", "9"}
DigitVal(c) ==
    CASE c = "0" -> 0 [] c = "1" -> 1 [] c = "2" -> 2 [] c = "3" -> 3
      [] c = "4" -> 4 [] c = "5" -> 5 [] c = "6" -> 6 [] c = "7" -> 7
      [] c = "8" -> 8 [] c = "9" -> 9

RECURSIVE DigitsValue(_, _)
DigitsValue(s, acc) ==
    IF Len(s) = 0 THEN acc
    ELSE IF s[1] = "_" THEN DigitsValue(Tail(s), acc)
    ELSE DigitsValue(Tail(s), acc * 10 + DigitVal(s[1]))

\* int()'s literal after the sign: digits, single underscores between digits
IsIntLiteral(s) ==
    /\ Len(s) > 0
    /\ IsDigit(s[1])
    /\ IsDigit(s[Len(s)])
    /\ \A i \in 1..Len(s) : IsDigit(s[i]) \/ s[i] = "_"
    /\ \A i \in 1..(Len(s) - 1) : ~(s[i] = "_" /\ s[i + 1] = "_")

\* int(s): <<TRUE, value>>, or <<FALSE, 0>> for ValueError
int_parse(s) ==
    LET t == Strip(s)
        signed == Len(t) > 0 /\ t[1] \in {"+", "-"}
        lit == IF signed THEN Tail(t) ELSE t
    IN  IF IsIntLiteral(lit)
        THEN <<TRUE, (IF signed /\ t[1] = "-" THEN -1 ELSE 1) * DigitsValue(lit, 0)>>
        ELSE <<FALSE, 0>>

MINYEAR == 1
MAXYEAR == 9999
THURSDAY == 3

is_leap(y) == y % 4 = 0 /\ (y % 100 # 0 \/ y % 400 = 0)
days_before_year(y) ==
    (y - 1) * 365 + (y - 1) \div 4 - (y - 1) \div 100 + (y - 1) \div 400
days_in_month(y, m) ==
    IF m = 2 THEN (IF is_leap(y) THEN 29 ELSE 28)
    ELSE IF m \in {4, 6, 9, 11} THEN 30 ELSE 31
RECURSIVE days_before_month(_, _)
days_before_month(y, m) ==
    IF m = 1 THEN 0 ELSE days_before_month(y, m - 1) + days_in_month(y, m - 1)
ymd_to_ord(y, m, d) == days_before_year(y) + days_before_month(y, m) + d
weekday(ord) == (ord + 6) % 7       \* Monday is 0

iso_week1_monday_no_shift(y) ==
    LET first_day == ymd_to_ord(y, 1, 1)
    IN  first_day - weekday(first_day)

\* the Monday of ISO week 1: the week that holds the year's first Thursday
iso_week1_monday(y) ==
    LET first_day == ymd_to_ord(y, 1, 1)
        first_weekday == weekday(first_day)
        week1_monday == first_day - first_weekday
    IN  IF first_weekday > THURSDAY THEN week1_monday + 7 ELSE week1_monday

week_in_range_any53(y, w) == w >= 1 /\ w <= 53

\* fromisocalendar's week check: 1..52, and 53 in a year that starts on a
\* Thursday or is a leap year starting on a Wednesday
week_in_range(y, w) ==
    LET first_weekday == weekday(ymd_to_ord(y, 1, 1))
    IN  \/ (w >= 1 /\ w <= 52)
        \/ (w = 53 /\ (first_weekday = 3 \/ (first_weekday = 2 /\ is_leap(y))))

\* datetime.date.fromisocalendar(year, week, day): <<TRUE, ordinal>>, or
\* <<FALSE, 0>> for ValueError (year, week or resulting date out of range)
fromisocalendar(y, w, d) ==
    IF y < MINYEAR \/ y > MAXYEAR THEN <<FALSE, 0>>
    ELSE IF ~week_in_range(y, w) THEN <<FALSE, 0>>
    ELSE IF d <= 0 \/ d >= 8 THEN <<FALSE, 0>>
    ELSE LET ord == iso_week1_monday(y) + (w - 1) * 7 + d - 1
         IN  IF ord > ymd_to_ord(MAXYEAR, 12, 31) THEN <<FALSE, 0>>
             ELSE <<TRUE, ord>>

NoneDate == 0
NoRange == <<NoneDate, NoneDate>>

\* get_week_range: (start_date, end_date), or (None, None) on ValueError
get_week_range(str) ==
    LET parts == SplitStr(str, <<"-", "W">>, -1)
    IN  IF Len(parts) # 2 THEN NoRange
        ELSE LET year == int_parse(parts[1])
                 week == int_parse(parts[2])
             IN  IF ~year[1] \/ ~week[1] THEN NoRange
                 ELSE LET start_date == fromisocalendar(year[2], week[2], 1)
                          end_date == fromisocalendar(year[2], week[2], 7)
                      IN  IF ~start_date[1] \/ ~end_date[1] THEN NoRange
                          ELSE <<start_date[2], end_date[2]>>

\* The identifiers weekly_review is run with: every YYYY-Www of the years
\* below with weeks 00..54, and identifiers that are not of that form
YearLo == 2019
YearSpan == 8
MaxWeekNo == 54
Years == YearLo..(YearLo + YearSpan) \cup {0, MINYEAR, MAXYEAR}
DigitChar(n) ==
    CASE n = 0 -> "0" [] n = 1 -> "1" [] n = 2 -> "2" [] n = 3 -> "3"
      [] n = 4 -> "4" [] n = 5 -> "5" [] n = 6 -> "6" [] n = 7 -> "7"
      [] n = 8 -> "8" [] n = 9 -> "9"
Fmt4(n) ==
    <<DigitChar((n \div 1000) % 10), DigitChar((n \div 100) % 10),
      DigitChar((n \div 10) % 10), DigitChar(n % 10)>>
Fmt2(n) == <<DigitChar((n \div 10) % 10), DigitChar(n % 10)>>
DashW == <<"-", "W">>
Y26 == <<"2", "0", "2", "6">>
Y25 == <<"2", "0", "2", "5">>
OddIdentifiers ==
    { Y26 \o DashW \o <<"2">>,                      \* 2026-W2
      Y25 \o DashW \o <<"5", "3">>,                 \* 2025-W53
      <<"2", "6">> \o DashW \o <<"0", "2">>,        \* 26-W02
      Y26 \o DashW \o <<"0", "0", "2">>,            \* 2026-W002
      <<SP>> \o Y26 \o DashW \o <<"0", "2", NL>>,   \* blanks around
      Y26 \o DashW \o <<"+", "2">>,                 \* 2026-W+2
      Y26 \o DashW \o <<"-", "2">>,                 \* 2026-W-2
      <<"-">> \o Y26 \o DashW \o <<"0", "2">>,      \* -2026-W02
      <<"2", "_", "0", "2", "6">> \o DashW \o <<"0", "_", "2">>,
      Y26 \o DashW \o <<"_", "2">>,                 \* 2026-W_2
      Y26 \o <<"-", "w", "0", "2">>,                \* 2026-w02
      Y26 \o <<"W", "0", "2">>,                     \* 2026W02
      Y26 \o <<"-", "0", "2">>,                     \* 2026-02
      Y26,                                          \* 2026
      Y26 \o DashW,                                 \* 2026-W
      DashW \o <<"0", "2">>,                        \* -W02
      Y26 \o DashW \o <<"0", "2">> \o DashW \o <<"0", "3">>,
      Y26 \o DashW \o <<"0", "x">>,                 \* 2026-W0x
      <<>> }
Identifiers ==
    {Fmt4(y) \o DashW \o Fmt2(w) : y \in Years, w \in 0..MaxWeekNo}
        \cup OddIdentifiers

\* extract_daily_content (99-142)
scan_header == <<"#", "#", SP, "S">>         \* "## 今日のスキャン"
action_header == <<"#", "#", SP, "T">>       \* "## 明日のアクション（AIコーチ）"
ScanTag == <<"[S]", NL>>                     \* "[今日の出来事・反省]\n"
ActionTag == <<"[T]", NL>>                   \* "[明日のアクション（AIコーチ）]\n"

\* the loop at 126-131 over the lines after the header
RECURSIVE extracted_lines(_)
extracted_lines(ls) ==
    IF Len(ls) = 0 THEN <<>>
    ELSE IF Strip(ls[1]) = <<>> THEN extracted_lines(Tail(ls))
    ELSE IF startswith(ls[1], <<"#", "#", SP>>) THEN <<>>
    ELSE <<ls[1]>> \o extracted_lines(Tail(ls))

\* get_section (115-132)
get_section(t, h) ==
    IF Find(t, h) = -1 THEN <<>>
    ELSE LET parts == SplitStr(t, h, -1)
         IN  IF Len(parts) < 2 THEN <<>>
             ELSE Strip(JoinLines(extracted_lines(SplitStr(parts[2], <<NL>>, -1))))

\* line 110, file_path.stem being the date as strftime wrote it (164): one
\* text element per date
DateStamp(d) == <<"-", "-", "-", SP, "Date:", SP, ToString(d), SP, "-", "-", "-", NL>>

\* extract_daily_content for the note of date d, note = <<exists, text>>
extract_daily_content(d, note) ==
    IF ~note[1] THEN <<>>
    ELSE LET scan_content == get_section(note[2], scan_header)
             action_content == get_section(note[2], action_header)
         IN  DateStamp(d)
                \o (IF scan_content # <<>>
                    THEN ScanTag \o scan_content \o <<NL, NL>> ELSE <<>>)
                \o (IF action_content # <<>>
                    THEN ActionTag \o action_content \o <<NL, NL>> ELSE <<>>)

\* The daily notes of the week
MaxNoteLines == 4
NoteLineKinds == {scan_header, action_header, <<"a">>, <<>>, <<"#", "#", SP, "X">>}
NoteTexts ==
    {JoinLines(ls) : ls \in UNION {[1..n -> NoteLineKinds] : n \in 1..MaxNoteLines}}
Missing == <<FALSE, <<>> >>
ScanNote == <<TRUE, JoinLines(<<scan_header, <<"a">>, action_header, <<"a">> >>)>>
EmptyNote == <<TRUE, <<"a">> >>
\* a few weeks: nothing, the same note every day, different notes on some days
FewWeeks ==
    { [d \in 1..7 |-> Missing],
      [d \in 1..7 |-> ScanNote],
      [d \in 1..7 |-> IF d = 2 THEN ScanNote ELSE IF d = 6 THEN EmptyNote ELSE Missing] }
\* one note text on the Monday and the Thursday, or on every day
NoteWeeks ==
    {[d \in 1..7 |-> IF d \in days THEN <<TRUE, t>> ELSE Missing] :
        t \in NoteTexts, days \in {{1, 4}, 1..7}}

WeekInit ==
    /\ iso_week_str \in Identifiers
    /\ daily_notes \in FewWeeks
    /\ wr_pc = "start"
    /\ week_range = NoRange
    /\ ai_calls = 0
    /\ review_written = FALSE
    /\ current = NoneDate
    /\ visited = <<>>
    /\ weekly_text = <<>>

\* weekly_review over the weeks of NoteWeeks, for 2026-W02 and for 2026-W01,
\* which begins in December 2025
Y26W01 == Y26 \o DashW \o <<"0", "1">>
Y26W02 == Y26 \o DashW \o <<"0", "2">>
CorpusInit ==
    /\ iso_week_str \in {Y26W01, Y26W02}
    /\ daily_notes \in NoteWeeks \cup FewWeeks
    /\ wr_pc = "start"
    /\ week_range = NoRange
    /\ ai_calls = 0
    /\ review_written = FALSE
    /\ current = NoneDate
    /\ visited = <<>>
    /\ weekly_text = <<>>

\* lines 145-147: VAULT_DIR is not set
WrNoVault ==
    /\ wr_pc = "start"
    /\ wr_pc' = "no_vault"
    /\ UNCHANGED <<iso_week_str, week_range, ai_calls, review_written,
                   daily_notes, current, visited, weekly_text>>
    /\ UNCHANGED <<mergeVars, anchorVars, fetchVars, batchVars, dailyVars>>

\* lines 149-162: resolve the week, report an invalid identifier and return,
\* or start the loop at the Monday
WrGetRange ==
    /\ wr_pc = "start"
    /\ week_range' = get_week_range(iso_week_str)
    /\ wr_pc' = IF week_range'[1] = NoneDate THEN "invalid" ELSE "collect"
    /\ current' = week_range'[1]
    /\ UNCHANGED <<iso_week_str, ai_calls, review_written, daily_notes, visited,
                   weekly_text>>
    /\ UNCHANGED <<mergeVars, anchorVars, fetchVars, batchVars, dailyVars>>

\* lines 163-167: one iteration of "while current <= end_date"
WrVisitDay ==
    /\ wr_pc = "collect"
    /\ current <= week_range[2]
    /\ weekly_text' = weekly_text
            \o extract_daily_content(current, daily_notes[current - week_range[1] + 1])
    /\ visited' = Append(visited, current)
    /\ current' = current + 1
    /\ UNCHANGED <<iso_week_str, wr_pc, week_range, ai_calls, review_written, daily_notes>>
    /\ UNCHANGED <<mergeVars, anchorVars, fetchVars, batchVars, dailyVars>>

\* lines 163, 169-171: the loop ends; return when the week's text is blank
WrCollect ==
    /\ wr_pc = "collect"
    /\ current > week_range[2]
    /\ wr_pc' = IF Strip(weekly_text) = <<>> THEN "no_notes" ELSE "call_ai"
    /\ UNCHANGED <<iso_week_str, week_range, ai_calls, review_written,
                   daily_notes, current, visited, weekly_text>>
    /\ UNCHANGED <<mergeVars, anchorVars, fetchVars, batchVars, dailyVars>>

\* lines 173-200: call the generative service; return when it raises
WrCallAI(raises) ==
    /\ wr_pc = "call_ai"
    /\ ai_calls' = ai_calls + 1
    /\ wr_pc' = IF raises THEN "ai_failed" ELSE "write"
    /\ UNCHANGED <<iso_week_str, week_range, review_written,
                   daily_notes, current, visited, weekly_text>>
    /\ UNCHANGED <<mergeVars, anchorVars, fetchVars, batchVars, dailyVars>>

\* lines 202-210: write the review file
WrWrite ==
    /\ wr_pc = "write"
    /\ review_written' = TRUE
    /\ wr_pc' = "done"
    /\ UNCHANGED <<iso_week_str, week_range, ai_calls,
                   daily_notes, current, visited, weekly_text>>
    /\ UNCHANGED <<mergeVars, anchorVars, fetchVars, batchVars, dailyVars>>

WeekNext ==
    \/ WrNoVault
    \/ WrGetRange
    \/ WrVisitDay
    \/ WrCollect
    \/ \E raises \in BOOLEAN : WrCallAI(raises)
    \/ WrWrite

----------------------------------------------------------------------------
(* Claims about get_week_range and weekly_review *)

RangeResolved == wr_pc \notin {"start", "no_vault"}

\* YYYY-Www: four digits, "-W", two digits
StrictForm(s) ==
    /\ Len(s) = 8
    /\ \A i \in {1, 2, 3, 4, 7, 8} : IsDigit(s[i])
    /\ s[5] = "-"
    /\ s[6] = "W"
IdYear(s) == DigitsValue(SubSeq(s, 1, 4), 0)
IdWeek(s) == DigitsValue(SubSeq(s, 7, 8), 0)

\* ISO 8601: a year has 53 weeks when it ends on a Thursday or the year
\* before it ends on a Wednesday, and 52 otherwise
DecemberEnd(y) == (y + y \div 4 - y \div 100 + y \div 400) % 7
WeeksInYear(y) == IF DecemberEnd(y) = 4 \/ DecemberEnd(y - 1) = 3 THEN 53 ELSE 52
ValidIsoWeek(y, w) == y >= 1 /\ y <= 9999 /\ w >= 1 /\ w <= WeeksInYear(y)
NamesValidIsoWeek(s) == StrictForm(s) /\ ValidIsoWeek(IdYear(s), IdWeek(s))

YearOf(ord) ==
    CHOOSE y \in (ord \div 366)..(ord \div 365 + 1) :
        days_before_year(y) < ord /\ ord <= days_before_year(y + 1)

\* ISO year and week of a date: those of the Thursday of its week
IsoYearWeek(ord) ==
    LET th == ord - weekday(ord) + 3
        y == YearOf(th)
    IN  <<y, (th - ymd_to_ord(y, 1, 1)) \div 7 + 1>>

IsWeekOf(range, y, w) ==
    /\ range[1] # NoneDate
    /\ weekday(range[1]) = 0
    /\ weekday(range[2]) = 6
    /\ range[2] = range[1] + 6
    /\ \A d \in range[1]..range[2] : IsoYearWeek(d) = <<y, w>>

Id2026W02 == Y26 \o DashW \o <<"0", "2">>
Range2026W02 == <<ymd_to_ord(2026, 1, 5), ymd_to_ord(2026, 1, 11)>>

\* C8 as claimed: for every YYYY-Www that names a valid ISO week,
\* get_week_range returns the Monday and the Sunday of that ISO week;
\* 2026-W02 gives (2026-01-05, 2026-01-11).
C8_EveryValidWeek ==
    (RangeResolved /\ NamesValidIsoWeek(iso_week_str)) =>
        /\ IsWeekOf(week_range, IdYear(iso_week_str), IdWeek(iso_week_str))
        /\ iso_week_str = Id2026W02 => week_range = Range2026W02

LastWeek(s) == IdYear(s) = 9999 /\ IdWeek(s) = 52

\* C8 as amended: for every YYYY-Www that names a valid ISO week other than
\* 9999-W52, get_week_range returns the Monday and the Sunday of that ISO
\* week, and 2026-W02 gives (2026-01-05, 2026-01-11); for 9999-W52, whose
\* Sunday lies past the last date 9999-12-31, it returns no range.
C8_EveryValidWeekButTheLast ==
    (RangeResolved /\ NamesValidIsoWeek(iso_week_str)) =>
        IF LastWeek(iso_week_str) THEN week_range = NoRange
        ELSE /\ IsWeekOf(week_range, IdYear(iso_week_str), IdWeek(iso_week_str))
             /\ iso_week_str = Id2026W02 => week_range = Range2026W02

C8_Witness ==
    /\ RangeResolved
    /\ iso_week_str = Id2026W02
    /\ week_range = Range2026W02
    /\ wr_pc = "collect"

Failed ==
    /\ week_range = NoRange
    /\ wr_pc = "invalid"
    /\ ai_calls = 0
    /\ ~review_written

\* C9 as claimed: get_week_range fails for every string that is not a
\* YYYY-Www (four digits, W, two digits) naming a valid ISO week, and then
\* weekly_review reports it, calls no generative service and writes no file.
C9_OnlyStrictFormAccepted ==
    (RangeResolved /\ ~NamesValidIsoWeek(iso_week_str)) => Failed

Parsed(s) ==
    LET parts == SplitStr(s, DashW, -1)
    IN  /\ Len(parts) = 2
        /\ int_parse(parts[1])[1]
        /\ int_parse(parts[2])[1]
ParsedYear(s) == int_parse(SplitStr(s, DashW, -1)[1])[2]
ParsedWeek(s) == int_parse(SplitStr(s, DashW, -1)[2])[2]

\* C9 as amended: get_week_range fails for every string that does not split
\* at "-W" into exactly two parts that int() accepts, and for every parsed
\* year outside 1..9999 or week that is not a valid ISO week of that year;
\* on every failure weekly_review reports it, calls no generative service
\* and writes no file.
C9_UnparsedOrInvalidWeekFails ==
    RangeResolved =>
        /\ (~Parsed(iso_week_str)
                \/ ~ValidIsoWeek(ParsedYear(iso_week_str), ParsedWeek(iso_week_str)))
            => week_range = NoRange
        /\ week_range = NoRange => Failed

\* week 53 of a year that has 52 weeks was rejected
C9_Witness ==
    /\ iso_week_str = Y25 \o DashW \o <<"5", "3">>
    /\ Failed

----------------------------------------------------------------------------
(* fetch_raindrop_body: one iteration of "for file_path in files" (50-132) *)

Dashes == <<"-", "-", "-">>
Marker == <<"#", "#", SP, "M">>         \* "## 本文（newspaper3k）"
LinkLine == <<"k">>                     \* a frontmatter line "link: <url>"
CreatedLine == <<"c">>                  \* "created: <a date not before start_date>"

\* yaml.safe_load(frontmatter_str), as far as the loop looks at it:
\* <<TRUE, keys of the mapping>>, the keys being {} for an empty document
\* (None), and <<FALSE, {}>> for a text that is no mapping of the two keys (a
\* YAMLError, or a value whose .get raises: either way the iteration ends
\* without fetching)
safe_load(fm_str) ==
    LET lines == SplitStr(fm_str, <<NL>>, -1)
        used == {i \in 1..Len(lines) : lines[i] # <<>>}
    IN  IF \E i \in used : lines[i] \notin {LinkLine, CreatedLine} THEN <<FALSE, {}>>
        ELSE <<TRUE, {IF lines[i] = LinkLine THEN "link" ELSE "created" : i \in used}>>

\* lines 109-119 without the split at the marker
new_body_append_only(body_text, extracted_text) ==
    body_text \o <<NL, NL>> \o Marker \o <<NL>> \o extracted_text

\* lines 109-119: the body with the marker section holding the fetched text
new_body(body_text, extracted_text) ==
    LET hdr == <<NL, NL>> \o Marker \o <<NL>>
    IN  IF Find(body_text, Marker) # -1
        THEN SplitStr(body_text, Marker, -1)[1] \o hdr \o extracted_text
        ELSE body_text \o hdr \o extracted_text

\* line 122
new_content(frontmatter_str, body_text, extracted_text) ==
    Dashes \o <<NL>> \o frontmatter_str \o Dashes
        \o new_body(body_text, extracted_text)

\* lines 56-98: whether the iteration gets as far as creating the Article
reaches_fetch(c, filtering) ==
    /\ startswith(c, Dashes)
    /\ Len(SplitStr(c, Dashes, 2)) >= 3
    /\ LET fm == safe_load(SplitStr(c, Dashes, 2)[2])
       IN  /\ fm[1]
           /\ fm[2] # {}
           /\ filtering => "created" \in fm[2]
           /\ "link" \in fm[2]

\* The directory: one file of up to MaxFileLines lines, or up to MaxFiles
\* files out of a few
MaxFileLines == 4
MaxFiles == 2
FileLineKinds == {Dashes, LinkLine, CreatedLine, <<"b">>, LinkLine \o Dashes \o <<"b">>, Marker}
FileTexts ==
    {JoinLines(ls) : ls \in UNION {[1..n -> FileLineKinds] : n \in 0..MaxFileLines}}
FewFileTexts ==
    { JoinLines(<<Dashes, LinkLine, Dashes, <<"b">> >>),
      JoinLines(<<Dashes, LinkLine, CreatedLine, Dashes, <<"b">>, Marker, <<"b">> >>),
      JoinLines(<<Dashes, LinkLine>>),
      <<"b">> }
Directories ==
    {<<c>> : c \in FileTexts} \cup UNION {[1..n -> FewFileTexts] : n \in 2..MaxFiles}
ArticleTexts == {<<>>, <<"t">>, <<SP, "u", NL>>, <<"t", NL>> \o Marker}
MaxRuns == 2

FetchInit ==
    /\ files \in Directories
    /\ orig_files = files
    /\ filter_date \in BOOLEAN
    /\ file_idx = 1
    /\ fetched = {}
    /\ written = {}
    /\ extracted = [i \in 1..Len(files) |-> <<>>]
    /\ runs = 1

\* one iteration, over files[file_idx]: `readable` is whether open and read
\* succeed, `raises` whether download or parse raises, `art` the article
\* text otherwise
ProcessFile(readable, raises, art) ==
    /\ file_idx <= Len(files)
    /\ file_idx' = file_idx + 1
    /\ IF readable /\ reaches_fetch(files[file_idx], filter_date)
       THEN /\ fetched' = fetched \cup {file_idx}
            /\ IF raises
               THEN UNCHANGED <<files, written, extracted>>
               ELSE LET parts == SplitStr(files[file_idx], Dashes, 2)
                    IN  /\ written' = written \cup {file_idx}
                        /\ extracted' = [extracted EXCEPT ![file_idx] = Strip(art)]
                        /\ files' = [files EXCEPT ![file_idx] =
                                new_content(parts[2], parts[3], Strip(art))]
       ELSE UNCHANGED <<files, fetched, written, extracted>>
    /\ UNCHANGED <<orig_files, filter_date, runs>>
    /\ UNCHANGED <<mergeVars, anchorVars, weekVars, batchVars, dailyVars>>

\* fetch_raindrop_body is invoked again, with the same arguments, over the
\* files the earlier invocation left on disk
FetchAgain ==
    /\ file_idx > Len(files)
    /\ runs < MaxRuns
    /\ runs' = runs + 1
    /\ file_idx' = 1
    /\ UNCHANGED <<files, orig_files, filter_date, fetched, written, extracted>>
    /\ UNCHANGED <<mergeVars, anchorVars, weekVars, batchVars, dailyVars>>

FetchNext ==
    \/ \E readable \in BOOLEAN, raises \in BOOLEAN, art \in ArticleTexts :
            ProcessFile(readable, raises, art)
    \/ FetchAgain

----------------------------------------------------------------------------
(* Claims about fetch_raindrop_body *)

FileLines(c) == SplitStr(c, <<NL>>, -1)

\* the text starts with a line equal to "---" and a later line equal to
\* "---" closes the key-value block
WellFormedFrontmatter(c) ==
    /\ FileLines(c)[1] = Dashes
    /\ \E i \in 2..Len(FileLines(c)) : FileLines(c)[i] = Dashes

\* C10: a document that does not start with a "---" line, or whose block is
\* not closed by a later "---" line, is skipped: no article is fetched and
\* the file is not written, its bytes staying as they were.
C10_IllFormedSkipped ==
    \A i \in 1..(file_idx - 1) :
        ~WellFormedFrontmatter(orig_files[i]) =>
            /\ i \notin fetched
            /\ i \notin written
            /\ files[i] = orig_files[i]

\* the text up to the marker header of the body (the whole text when the body
\* has no marker): both delimiters, the key-value block between them and the
\* body text that precedes the marker
ClosingLine(c) == Least({i \in 2..Len(FileLines(c)) : FileLines(c)[i] = Dashes})
FrontPart(c) == JoinLines(SubSeq(FileLines(c), 1, ClosingLine(c)))
UpToMarker(c) ==
    LET rest == Slice(c, Len(FrontPart(c)), Len(c))
    IN  IF Find(rest, Marker) = -1 THEN c
        ELSE Slice(c, 0, Len(FrontPart(c)) + Find(rest, Marker))

\* C11: a rewritten well-formed frontmatter document still begins with the
\* bytes of the original up to the marker header: opening delimiter,
\* key-value block, closing delimiter and the body text before the marker
\* are unchanged, after any number of runs.
C11_FrontmatterRoundTrip ==
    \A i \in written :
        WellFormedFrontmatter(orig_files[i]) =>
            IsPrefix(UpToMarker(orig_files[i]), files[i])

\* the body of a file as the loop splits it off (line 65)
BodyOf(c) == SplitStr(c, Dashes, 2)[3]
Occurrences(s, t) == {p \in 0..(Len(s) - Len(t)) : StartsWithAt(s, p, t)}

\* C13 as stated: after any number of runs the body of a file the loop wrote
\* holds the marker header exactly once, followed only by the text fetched
\* last.
C13_SingleMarkerSection ==
    \A i \in written :
        /\ Cardinality(Occurrences(BodyOf(files[i]), Marker)) = 1
        /\ IsSuffix(Marker \o <<NL>> \o extracted[i], BodyOf(files[i]))

\* C13: after any number of runs the body of a file the loop wrote ends with
\* the marker header, a newline and the text fetched last (stripped); when
\* that text does not itself contain the marker header this is the only
\* occurrence of the marker header in the body.
C13_SingleMarkerUnlessFetched ==
    \A i \in written :
        /\ IsSuffix(Marker \o <<NL>> \o extracted[i], BodyOf(files[i]))
        /\ Find(extracted[i], Marker) = -1
            => Cardinality(Occurrences(BodyOf(files[i]), Marker)) = 1

\* a file whose body had a marker section with older text was rewritten, in
\* a second run, and the older text is gone
C13_Witness ==
    /\ runs = 2
    /\ file_idx = 2
    /\ 1 \in written
    /\ extracted[1] = <<"u">>
    /\ Find(BodyOf(orig_files[1]), Marker \o <<NL, "b">>) # -1
    /\ Find(BodyOf(files[1]), Marker \o <<NL, "b">>) = -1

----------------------------------------------------------------------------
(* Claims about the weekly corpus *)

Collected == wr_pc \in {"no_notes", "call_ai", "ai_failed", "write", "done"}

\* the section body as the data model has it: the lines after the first line
\* equal to the header, up to the next line starting with "## " or the end of
\* the document (without the whitespace around them)
RECURSIVE LinesUntilHeader(_)
LinesUntilHeader(ls) ==
    IF Len(ls) = 0 \/ startswith(ls[1], <<"#", "#", SP>>) THEN <<>>
    ELSE <<ls[1]>> \o LinesUntilHeader(Tail(ls))
SectionBody(t, h) ==
    LET ls == SplitStr(t, <<NL>>, -1)
        at == {i \in 1..Len(ls) : ls[i] = h}
    IN  IF at = {} THEN <<>>
        ELSE Strip(JoinLines(LinesUntilHeader(SubSeq(ls, Least(at) + 1, Len(ls)))))

\* what a date contributes: nothing when its note is missing, else the
\* date-stamped separator and a section for each non-empty body
Contribution(d, note) ==
    IF ~note[1] THEN <<>>
    ELSE DateStamp(d)
            \o (IF SectionBody(note[2], scan_header) # <<>>
                THEN ScanTag \o SectionBody(note[2], scan_header) \o <<NL, NL>> ELSE <<>>)
            \o (IF SectionBody(note[2], action_header) # <<>>
                THEN ActionTag \o SectionBody(note[2], action_header) \o <<NL, NL>> ELSE <<>>)

\* C15: weekly_review visits the seven dates from the Monday to the Sunday
\* once each in order, and the week's text is the concatenation, in that
\* order, of what each date contributes: nothing for a missing note, else the
\* date-stamped separator with a section for each of the two fixed headers
\* whose body (header line to the next "## " line or the end) is not empty.
C15_WeeklyCorpus ==
    Collected =>
        /\ visited = [i \in 1..7 |-> week_range[1] + i - 1]
        /\ week_range[2] = week_range[1] + 6
        /\ weekly_text =
                Concat([i \in 1..7 |-> Contribution(week_range[1] + i - 1, daily_notes[i])])

----------------------------------------------------------------------------
(* The batch loops of classify_kindle_notes (81-135) and of summarize_note's *)
(* directory mode (317-330, process_file 157-283)                          *)

MaxDocs == 3

\* what the generative service's answer text turns out to be
\*   "not_json"         json.loads raises JSONDecodeError
\*   "not_object"       valid JSON that is no object (a list, a string, null)
\*   "object"           a JSON object as asked for
\*   "object_no_topics" summarize: an object with no or empty "topics"
\*   "bad_topics"       summarize: "topics" holds something other than objects
ResponseTexts == {"not_json", "not_object", "object", "object_no_topics", "bad_topics"}

\* what the HTTP exchange of process_file gives (201-217)
\*   "request_error"  requests raises a RequestException
\*   "no_choices"     the reply has no "choices" entry
\*   "no_message"     choices[0] does not have ["message"]["content"], or
\*                    the content is not a string
\*   "content"        the reply carries an answer text
Replies == {"request_error", "no_choices", "no_message", "content"}

BatchInit ==
    /\ prog \in {"classify", "summarize"}
    /\ n_docs \in 1..MaxDocs
    /\ doc_idx = 1
    /\ attempted = {}
    /\ processed_sources \in
            IF prog = "summarize" THEN SUBSET (1..n_docs) ELSE {{}}
    /\ moved = {}
    /\ summarized = {}
    /\ batch_pc = "loop"

\* classify_kindle_notes, one iteration of the loop at 81: everything is
\* inside try / except Exception (82, 132), JSONDecodeError continues (120)
ClassifyFile(readable, api_raises, resp, move_raises) ==
    /\ prog = "classify"
    /\ batch_pc = "loop"
    /\ doc_idx <= n_docs
    /\ attempted' = attempted \cup {doc_idx}
    /\ doc_idx' = doc_idx + 1
    /\ moved' = IF readable /\ ~api_raises /\ resp \in {"object", "object_no_topics", "bad_topics"}
                        /\ ~move_raises
                 THEN moved \cup {doc_idx} ELSE moved
    /\ UNCHANGED <<prog, n_docs, processed_sources, summarized, batch_pc>>
    /\ UNCHANGED <<mergeVars, anchorVars, weekVars, fetchVars, dailyVars>>

\* whether process_file (157-283) ends by an exception it does not catch:
\* only the read (170-175), RequestException (213) and JSONDecodeError (233)
\* are caught
process_file_raises(readable, reply, resp) ==
    /\ readable
    /\ \/ reply = "no_message"
       \/ reply = "content" /\ resp \in {"not_object", "bad_topics"}

\* whether process_file writes summary notes (246-283)
process_file_writes(readable, reply, resp) ==
    readable /\ reply = "content" /\ resp = "object"

\* summarize_note main, one iteration of the loop at 317: no try around the
\* call at 330
SummarizeFile(readable, reply, resp) ==
    /\ prog = "summarize"
    /\ batch_pc = "loop"
    /\ doc_idx <= n_docs
    /\ attempted' = attempted \cup {doc_idx}
    /\ IF doc_idx \in processed_sources
       THEN /\ doc_idx' = doc_idx + 1
            /\ UNCHANGED <<summarized, batch_pc>>
       ELSE IF process_file_raises(readable, reply, resp)
       THEN /\ batch_pc' = "aborted"
            /\ UNCHANGED <<doc_idx, summarized>>
       ELSE /\ doc_idx' = doc_idx + 1
            /\ summarized' = IF process_file_writes(readable, reply, resp)
                              THEN summarized \cup {doc_idx} ELSE summarized
            /\ UNCHANGED batch_pc
    /\ UNCHANGED <<prog, n_docs, processed_sources, moved>>
    /\ UNCHANGED <<mergeVars, anchorVars, weekVars, fetchVars, dailyVars>>

ClassifyNext ==
    \E readable \in BOOLEAN, api_raises \in BOOLEAN, resp \in ResponseTexts,
       move_raises \in BOOLEAN :
        ClassifyFile(readable, api_raises, resp, move_raises)

SummarizeNext ==
    \E readable \in BOOLEAN, reply \in Replies, resp \in ResponseTexts :
        SummarizeFile(readable, reply, resp)

BatchNext == (prog = "fetch" /\ FetchNext) \/ ClassifyNext \/ SummarizeNext

----------------------------------------------------------------------------
(* Claims about the batch loops *)

\* the files of the batch, by index
BatchDocs == IF prog = "fetch" THEN 1..Len(files) ELSE 1..n_docs
\* the files the run has taken up so far (for fetch, those the loop index
\* has passed in the first run or any later one)
TakenUp == IF prog = "fetch"
           THEN (IF runs > 1 THEN 1..Len(files) ELSE 1..(file_idx - 1))
           ELSE attempted

\* C12: in every batch run the documents are taken up one after another in
\* order, and whatever fails while one document is processed, every document
\* of the batch is eventually taken up.
C12_EveryDocumentAttempted ==
    /\ [](\E k \in 0..Cardinality(BatchDocs) : TakenUp = 1..k)
    /\ <>(TakenUp = BatchDocs)

----------------------------------------------------------------------------
(* Cleaning the markdown fences off the generative service's answer:       *)
(* daily_pipeline 198-209, and the same lines in weekly_review 187-198     *)

\* the backquote is written "~" in the model's texts
BQ == "~"
Fence == <<BQ, BQ, BQ>>                 \* the three backquotes of a fence
MarkdownTag == <<"m">>                  \* "markdown"

endswith(s, t) == Len(t) <= Len(s) /\ SubSeq(s, Len(s) - Len(t) + 1, Len(s)) = t

\* s.replace(t, "", 1)
replace_first(s, t) ==
    IF Find(s, t) = -1 THEN s
    ELSE Slice(s, 0, Find(s, t)) \o Slice(s, Find(s, t) + Len(t), Len(s))

\* s[:-3] when s ends with the fence
drop_closing_fence(s) ==
    IF endswith(s, Fence) THEN Slice(s, 0, Len(s) - 3) ELSE s

\* lines 201-209
clean_fences(r) ==
    IF startswith(r, Fence \o MarkdownTag)
    THEN Strip(drop_closing_fence(replace_first(r, Fence \o MarkdownTag)))
    ELSE IF startswith(r, Fence)
    THEN Strip(drop_closing_fence(replace_first(r, Fence)))
    ELSE Strip(r)

MaxRespToks == 5
RespTokens == {Fence, MarkdownTag, <<"j">>, <<"x">>, <<NL>>, <<SP>>}
ResponseStrings ==
    {Concat(ts) : ts \in UNION {[1..n -> RespTokens] : n \in 0..MaxRespToks}}

FenceInit ==
    /\ response_text \in ResponseStrings
    /\ ai_response = <<FALSE, <<>> >>
    /\ dp_pc = "call_ai"
    /\ full_text = <<>>
    /\ ocr_texts = <<>>
    /\ ai_sections = <<>>
    /\ daily_note = Missing
    /\ orig_note = Missing

\* lines 198-209
CleanFences ==
    /\ ~ai_response[1]
    /\ ai_response' = <<TRUE, clean_fences(response_text)>>
    /\ UNCHANGED <<response_text, dp_pc, full_text, ocr_texts, ai_sections,
                   daily_note, orig_note>>
    /\ UNCHANGED <<mergeVars, anchorVars, weekVars, fetchVars, batchVars>>

FenceNext == CleanFences

----------------------------------------------------------------------------
(* daily_pipeline (136-302) *)

improve_header == <<"#", "#", SP, "I">>      \* "## 改善ポイント（AIコーチ）"
ai_headers == <<improve_header, action_header>>
\* the keys of new_sections (226-231), in the dict's order: scan_header
\* "## 今日のスキャン", "## 感情と気づき", "## 感謝と自己肯定", "## 明日の一歩"
new_section_headers ==
    <<scan_header, <<"#", "#", SP, "E">>, <<"#", "#", SP, "G">>, <<"#", "#", SP, "P">> >>

\* a failure text that is itself a coach section
failure_response_as_section == improve_header \o <<NL, "AI Generation Failed.">>
\* line 213
failure_response == <<"AI Generation Failed.">>

\* ai_sections[h] = b (279, 288): a new key goes to the end of the dict, an
\* old key keeps its place
set_section(secs, h, b) ==
    IF \E i \in 1..Len(secs) : secs[i][1] = h
    THEN [i \in 1..Len(secs) |-> IF secs[i][1] = h THEN <<h, b>> ELSE secs[i]]
    ELSE Append(secs, <<h, b>>)

\* the header a stripped line switches to (276-283), <<>> when it is none
header_of_line(line) ==
    IF startswith(line, ai_headers[1]) THEN ai_headers[1]
    ELSE IF startswith(line, ai_headers[2]) THEN ai_headers[2]
    ELSE <<>>

\* the loop at 273-285 and the lines 287-288; current_header is <<>> for None
RECURSIVE scan_lines(_, _, _, _)
scan_lines(lines, current_header, buffer, secs) ==
    IF Len(lines) = 0
    THEN IF current_header # <<>>
         THEN set_section(secs, current_header, Strip(JoinLines(buffer)))
         ELSE secs
    ELSE LET line == Strip(lines[1])
             h == header_of_line(line)
         IN  IF h # <<>>
             THEN scan_lines(Tail(lines), h, <<>>,
                    IF current_header # <<>>
                    THEN set_section(secs, current_header, Strip(JoinLines(buffer)))
                    ELSE secs)
             ELSE scan_lines(Tail(lines), current_header,
                    IF current_header # <<>> THEN Append(buffer, line) ELSE buffer,
                    secs)

\* lines 264-288
split_ai_response(r) == scan_lines(SplitStr(r, <<NL>>, -1), <<>>, <<>>, <<>>)

\* the loops at 240-246 and 291-297: upsert the pairs one after another
RECURSIVE upsert_all(_, _)
upsert_all(c, pairs) ==
    IF Len(pairs) = 0 THEN c
    ELSE upsert_all(upsert(c, pairs[1][1], pairs[1][2]), Tail(pairs))

\* lines 226-300: the note's new text
updated_note(note, texts, response) ==
    LET c0 == IF note[1] THEN note[2] ELSE DefaultNote
        c1 == upsert_all(c0, [i \in 1..4 |-> <<new_section_headers[i], texts[i]>>])
    IN  upsert_all(c1, split_ai_response(response))

\* The inputs of a run
MaxAiLines == 3
AiLineKinds ==
    { improve_header, action_header, <<"x">>,
      improve_header \o <<"y">>,                \* begins with a header
      <<"x", SP>> \o action_header,             \* contains a header
      <<SP>> \o action_header \o <<SP>> }       \* a header with blanks around it
AiResponses ==
    {JoinLines(ls) : ls \in UNION {[1..n -> AiLineKinds] : n \in 0..MaxAiLines}}
OcrTexts ==
    { <<>>,
      <<"#", "1", NL, "a", NL, "#", SP, "2", NL, "a", NL, "#", "3", NL, "#", "4", NL, "a", NL>> }
CoachedNote ==
    JoinLines(<< <<"#", SP, "D">>, scan_header, <<"o">>, improve_header, <<"o">>,
                 action_header, <<"o">>, <<>> >>)
DailyNotes ==
    { Missing,
      <<TRUE, DefaultNote>>,
      <<TRUE, CoachedNote>>,
      <<TRUE, JoinLines(<<action_header, <<"o">>, <<"#", "#", SP, "Z">>, <<"k">> >>)>> }

DailyInit ==
    /\ daily_note \in DailyNotes
    /\ orig_note = daily_note
    /\ dp_pc = "start"
    /\ full_text = <<>>
    /\ ocr_texts = <<>>
    /\ response_text = <<>>
    /\ ai_response = <<FALSE, <<>> >>
    /\ ai_sections = <<>>

\* lines 137-149: VAULT_DIR is not set, or the day's PDF is not there
DpNoPdf ==
    /\ dp_pc = "start"
    /\ dp_pc' = "no_pdf"
    /\ UNCHANGED <<response_text, ai_response, full_text, ocr_texts, ai_sections,
                   daily_note, orig_note>>
    /\ UNCHANGED <<mergeVars, anchorVars, weekVars, fetchVars, batchVars>>

\* lines 153-178: OCR, returning when it fails, then the four sections
DpOCR(ocr_raises, ft) ==
    /\ dp_pc = "start"
    /\ IF ocr_raises
       THEN /\ dp_pc' = "ocr_failed"
            /\ UNCHANGED <<full_text, ocr_texts>>
       ELSE /\ dp_pc' = "call_ai"
            /\ full_text' = ft
            /\ ocr_texts' = [i \in 1..4 |-> clean_section_text(extract_section(ft, Labels[i]))]
    /\ UNCHANGED <<response_text, ai_response, ai_sections, daily_note, orig_note>>
    /\ UNCHANGED <<mergeVars, anchorVars, weekVars, fetchVars, batchVars>>

\* lines 180-213: the generative service is called; when it raises the
\* response is the failure text
DpCallAI(ai_raises, r) ==
    /\ dp_pc = "call_ai"
    /\ Len(ocr_texts) = 4
    /\ dp_pc' = "update"
    /\ IF ai_raises
       THEN /\ response_text' = <<>>
            /\ ai_response' = <<FALSE, failure_response>>
       ELSE /\ response_text' = r
            /\ ai_response' = <<TRUE, clean_fences(r)>>
    /\ UNCHANGED <<full_text, ocr_texts, ai_sections, daily_note, orig_note>>
    /\ UNCHANGED <<mergeVars, anchorVars, weekVars, fetchVars, batchVars>>

\* lines 215-300: read the note, upsert the sections, write the note
DpUpdateNote ==
    /\ dp_pc = "update"
    /\ dp_pc' = "done"
    /\ ai_sections' = split_ai_response(ai_response[2])
    /\ daily_note' = <<TRUE, updated_note(daily_note, ocr_texts, ai_response[2])>>
    /\ UNCHANGED <<response_text, ai_response, full_text, ocr_texts, orig_note>>
    /\ UNCHANGED <<mergeVars, anchorVars, weekVars, fetchVars, batchVars>>

DailyNext ==
    \/ DpNoPdf
    \/ \E ocr_raises \in BOOLEAN, ft \in OcrTexts : DpOCR(ocr_raises, ft)
    \/ \E ai_raises \in BOOLEAN, r \in AiResponses : DpCallAI(ai_raises, r)
    \/ DpUpdateNote

----------------------------------------------------------------------------
(* Claims about daily_pipeline *)

\* the header a line is, when the line (blanks around it aside) is exactly
\* one of the expected header strings; <<>> otherwise
ExactHeader(line) ==
    IF Strip(line) = ai_headers[1] THEN ai_headers[1]
    ELSE IF Strip(line) = ai_headers[2] THEN ai_headers[2]
    ELSE <<>>

\* the header -> body mapping as the merger's design has it: the lines after
\* a header line are its body up to the next header line; lines before the
\* first header line are dropped
RECURSIVE BodyLines(_)
BodyLines(lines) ==
    IF Len(lines) = 0 \/ ExactHeader(lines[1]) # <<>> THEN <<>>
    ELSE <<Strip(lines[1])>> \o BodyLines(Tail(lines))
RECURSIVE SectionsByExactHeader(_, _)
SectionsByExactHeader(lines, secs) ==
    IF Len(lines) = 0 THEN secs
    ELSE IF ExactHeader(lines[1]) # <<>>
    THEN SectionsByExactHeader(Tail(lines),
            set_section(secs, ExactHeader(lines[1]), Strip(JoinLines(BodyLines(Tail(lines))))))
    ELSE SectionsByExactHeader(Tail(lines), secs)

\* C17: the AI response is split line by line; only a line that is exactly
\* an expected header switches the current header, the lines after it are
\* its body up to the next such line, the text before the first one is
\* dropped, and a line that only begins with or contains a header string is
\* body text; the mapping has one entry per header that occurred.
C17_SplitAtExactHeaderLines ==
    dp_pc = "done" =>
        ai_sections = SectionsByExactHeader(SplitStr(ai_response[2], <<NL>>, -1), <<>>)

AiFailed == dp_pc \in {"update", "done"} /\ ~ai_response[1]
NoteText(note) == IF note[1] THEN note[2] ELSE DefaultNote
HasSection(t, h) == \E i \in 1..Len(SplitStr(t, <<NL>>, -1)) : SplitStr(t, <<NL>>, -1)[i] = h

----------------------------------------------------------------------------
(* Claims about the fences *)

\* r is a fenced block: around it only whitespace; a first line made of the
\* fence and a language tag (no tag for a bare fence); at the end the fence
IsTagChar(c) == c \notin {NL, SP, BQ}
FirstLineEnd(t) == IF Find(t, <<NL>>) = -1 THEN Len(t) ELSE Find(t, <<NL>>)
Fenced(r) ==
    LET t == Strip(r)
    IN  /\ startswith(t, Fence)
        /\ endswith(t, Fence)
        /\ FirstLineEnd(t) + 3 <= Len(t)
        /\ \A i \in 4..FirstLineEnd(t) : IsTagChar(t[i])
\* what stands between the introducer line and the closing fence
Between(r) ==
    LET t == Strip(r)
    IN  Slice(t, FirstLineEnd(t), Len(t) - 3)

\* C16: a response wrapped in a fenced block, the introducer bare or
\* language-tagged, whitespace or a final newline possibly around it, is
\* cleaned to the trimmed text between the fences; a response with no fence
\* in it is passed on trimmed.
C16_FencesRemoved ==
    ai_response[1] =>
        /\ Fenced(response_text) => ai_response[2] = Strip(Between(response_text))
        /\ Find(response_text, Fence) = -1 => ai_response[2] = Strip(response_text)

----------------------------------------------------------------------------
(* Parts not run by a specification stay as constructed *)

BatchIdle ==
    /\ prog = "none"
    /\ n_docs = 0
    /\ doc_idx = 1
    /\ attempted = {}
    /\ processed_sources = {}
    /\ moved = {}
    /\ summarized = {}
    /\ batch_pc = "loop"

DailyIdle ==
    /\ response_text = <<>>
    /\ ai_response = <<FALSE, <<>> >>
    /\ dp_pc = "start"
    /\ full_text = <<>>
    /\ ocr_texts = <<>>
    /\ ai_sections = <<>>
    /\ daily_note = Missing
    /\ orig_note = Missing

\* fetch_raindrop_body as one of the batch programs
FetchBatchInit ==
    /\ prog = "fetch"
    /\ n_docs = 0
    /\ doc_idx = 1
    /\ attempted = {}
    /\ processed_sources = {}
    /\ moved = {}
    /\ summarized = {}
    /\ batch_pc = "loop"

AnchorIdle ==
    /\ text = <<>>
    /\ label = ""
    /\ section = <<>>
    /\ cleaned = <<>>

WeekIdle ==
    /\ iso_week_str = <<>>
    /\ wr_pc = "start"
    /\ week_range = NoRange
    /\ ai_calls = 0
    /\ review_written = FALSE
    /\ daily_notes = <<>>
    /\ current = NoneDate
    /\ visited = <<>>
    /\ weekly_text = <<>>

FetchIdle ==
    /\ files = <<>>
    /\ orig_files = <<>>
    /\ filter_date = FALSE
    /\ file_idx = 1
    /\ fetched = {}
    /\ written = {}
    /\ extracted = <<>>
    /\ runs = 1

----------------------------------------------------------------------------
(* Specifications *)

InitMerge == MergeInit /\ AnchorIdle /\ WeekIdle /\ FetchIdle /\ BatchIdle /\ DailyIdle
InitAnchor == AnchorInit /\ MergeIdle /\ WeekIdle /\ FetchIdle /\ BatchIdle /\ DailyIdle
InitWeek == WeekInit /\ MergeIdle /\ AnchorIdle /\ FetchIdle /\ BatchIdle /\ DailyIdle
InitCorpus == CorpusInit /\ MergeIdle /\ AnchorIdle /\ FetchIdle /\ BatchIdle /\ DailyIdle
InitFetch == FetchInit /\ MergeIdle /\ AnchorIdle /\ WeekIdle /\ BatchIdle /\ DailyIdle
InitFence == FenceInit /\ MergeIdle /\ AnchorIdle /\ WeekIdle /\ FetchIdle /\ BatchIdle
InitDaily == DailyInit /\ MergeIdle /\ AnchorIdle /\ WeekIdle /\ FetchIdle /\ BatchIdle
InitBatch ==
    /\ MergeIdle /\ AnchorIdle /\ WeekIdle /\ DailyIdle
    /\ \/ FetchInit /\ FetchBatchInit
       \/ FetchIdle /\ BatchInit

SpecMerge == InitMerge /\ [][MergeNext]_vars
SpecAnchor == InitAnchor /\ [][AnchorNext]_vars
SpecWeek == InitWeek /\ [][WeekNext]_vars
SpecCorpus == InitCorpus /\ [][WeekNext]_vars
SpecFetch == InitFetch /\ [][FetchNext]_vars
SpecDaily == InitDaily /\ [][DailyNext]_vars
SpecFence == InitFence /\ [][FenceNext]_vars
\* each loop goes on to its next iteration as long as the program runs
SpecBatch == InitBatch /\ [][BatchNext]_vars /\ WF_vars(BatchNext)

====
